---- MODULE Spec2Model ----
(***************************************************************************)
(* Model of the dfsr helper package and poller:                            *)
(*   - helper.durableReporter (src/helper/durablereporter.go)              *)
(*   - poller.Poller          (src/poller/poller.go)                       *)
(*   - helper.Client          (src/helper/client.go)                       *)
(* Each component has its own specification (SpecDR, SpecPoller,           *)
(* SpecClient); the variables of the other components stay at their        *)
(* initial values.                                                         *)
(***************************************************************************)
EXTENDS Integers, Sequences, FiniteSets, TLC

\* ------------------------------------------------------------------ bounds
MaxRetries == 1
MaxInterval == 1
MaxTime == 2
MaxUpdates == 2
\* Largest number of workers a vector work pool is created with.
MaxWorkers == 2

\* Goroutines calling into one durableReporter.
Callers == {"c1", "c2"}

\* ------------------------------------------------------------------ errors
NoErr == "nil"
ErrClosed == "ErrClosed"
ErrDisconnected == "ErrDisconnected"
\* An error returned by NewReporter inside recover (a value of its own, so
\* that its provenance can be told apart from the errors of the action).
ErrRecreate == "ErrRecreate"
ErrZeroWorkers == "ErrZeroWorkers"

VARIABLES
  \* ---- durableReporter
  drRetries,       \* the retries argument of NewDurableReporter
  drInterval,      \* durableReporter.interval
  drAttempts,      \* durableReporter.attempts
  drR,             \* durableReporter.r: identity of the active reporter
  drLastRecovery,  \* durableReporter.lastRecovery
  drMutex,         \* holder of the exclusive lock of durableReporter.mutex
  drNow,           \* the clock read by time.Now()
  drNextId,        \* identity the next constructed reporter gets
  drClosed,        \* reporters on which Close() has completed
  drClosing,       \* reporters with a "go r.r.Close()" goroutine pending
  drPc,            \* position of each caller inside attempt/assess
  drI,             \* loop variable i of attempt, per caller
  drSnap,          \* local variable reporter of attempt, per caller
  drErr,           \* local variable err of attempt, per caller
  drRec,           \* per goroutine: state of its recover() invocation
  \* history of the call in progress, per caller
  drInvocations,   \* number of invocations of the action
  drLastActionErr, \* error returned by the last invocation of the action
  drAllFailed,     \* every invocation so far failed with an error # ErrClosed
  drBlocking,      \* number of blocking recover() calls made
  drBackground,    \* number of background recover() goroutines launched
  drCloseCalled,   \* durableReporter.Close has been called
  drConstructLog,  \* clock values of the last two invocations of NewReporter
  drRivals         \* goroutines that were waiting to enter recover for a
                   \* snapshot when another one invoked NewReporter for it

drVars == <<drRetries, drInterval, drAttempts, drR, drLastRecovery, drMutex,
            drNow, drNextId, drClosed, drClosing, drPc, drI, drSnap, drErr,
            drRec, drInvocations, drLastActionErr, drAllFailed, drBlocking,
            drBackground, drCloseCalled, drConstructLog, drRivals>>

VARIABLES
  \* ---- Poller
  pMutex,         \* holder of Poller.mutex
  pUpdating,      \* Poller.updating
  pClosed,        \* Poller.closed
  pStop,          \* Poller.stop: "open" or "closed"
  pPulse,         \* Poller.pulse: "open" or "closed"
  pWaiters,       \* goroutines blocked in Poller.idle.Wait()
  pRun,           \* position of the goroutine running Poller.run
  pUpd,           \* position of each goroutine running Poller.update
  pPoll,          \* position of each goroutine calling Poller.Poll
  pClose,         \* position of each goroutine calling Poller.Close
  pSourceCloses,  \* number of calls of source.Close
  pSpawnedBusy,   \* per update goroutine: was an update running when run
                  \* received the trigger that started the goroutine
  pCancelled      \* the contexts whose cancel function has been called

pVars == <<pMutex, pUpdating, pClosed, pStop, pPulse, pWaiters, pRun, pUpd,
           pPoll, pClose, pSourceCloses, pSpawnedBusy,
           pCancelled>>

VARIABLES
  \* ---- Client
  cM,             \* holder of the exclusive lock of Client.m
  cServers,       \* Client.servers: lower-case name -> session, 0 if absent
  cSessions,      \* the sessions built by Client.create, by identity
  cPc,            \* position of each goroutine calling into the Client
  cName,          \* argument server of the call in progress
  cSess,          \* the session Client.server returned to the call
  cErr,           \* the error the call returns
  cReached,       \* remote invocations made by the call in progress
  cConstructed,   \* number of sessions constructed per lower-case name
  cBk,            \* Backlog calls: source name and session, the vector,
                  \* and the record of the calls made and vectors released
  cAtCall         \* what held when the Vector call in progress began: the
                  \* session the map had for the name, and whether the
                  \* caller's previous call failed to construct it

cVars == <<cM, cServers, cSessions, cPc, cName, cSess, cErr, cReached,
           cConstructed, cBk, cAtCall>>

VARIABLES
  \* ---- vectorWorkPool
  wRequested,     \* numWorkers given to newVectorWorkPool, -1 before the call
  wPool,          \* the pool returned: "unbuilt", "nil" or "open"
  wErr,           \* the error newVectorWorkPool returned
  wWorker,        \* per worker of the pool: the job it has and its result
  wSub,           \* per submitter: position in Vector, argument and result
  wProduced       \* per submitter: what r.Vector returned to its job

wVars == <<wRequested, wPool, wErr, wWorker, wSub, wProduced>>

vars == <<drVars, pVars, cVars, wVars>>

\* Variables of the other components, which durableReporter leaves alone.
drOthers == <<pVars, cVars, wVars>>
\* Variables of the other components, which the Poller leaves alone.
pOthers == <<drVars, cVars, wVars>>
\* Variables of the other components, which the Client leaves alone.
cOthers == <<drVars, pVars, wVars>>
\* Variables of the other components, which the work pool leaves alone.
wOthers == <<drVars, pVars, cVars>>

\* Background recovery goroutines: a call can launch one (line 124).
Bg(c) == <<"bg", c>>
Bgs == {Bg(c) : c \in Callers}
\* The goroutine of caller c itself, when it runs recover (line 128).
Fg(c) == <<"fg", c>>
Fgs == {Fg(c) : c \in Callers}
Recoverers == Fgs \cup Bgs
\* Value of drMutex while no goroutine holds the exclusive lock.
Unlocked == <<"unlocked", "">>

IdleRec == [pc |-> "none", reporter |-> 0, new |-> 0, err |-> NoErr]
CallerOf(p) == p[2]

\* ------------------------------------------------ durableReporter helpers

\* Mutant of Attempts: the retries are taken for the number of attempts.
AttemptsWithoutFirst(retries) == retries

\* durablereporter.go:48   attempts: retries + 1
Attempts(retries) == retries + 1

\* Mutant of IsClosedErr: ErrClosed is treated like any other error.
IsClosedErrNever(err) == FALSE

\* durablereporter.go:119  err == ErrClosed
IsClosedErr(err) == err = ErrClosed

\* Mutant of NoMoreRetries: the test is off by one.
NoMoreRetriesLate(attempt, attempts) == attempt >= attempts

\* durablereporter.go:122  attempt+1 >= r.attempts
NoMoreRetries(attempt, attempts) == attempt + 1 >= attempts

\* Mutant of AlreadyRecovered: recover does not compare the snapshot.
AlreadyRecoveredNever(active, reporter) == FALSE

\* durablereporter.go:138  r.r != reporter
AlreadyRecovered(active, reporter) == active # reporter

\* Mutant of ClosedOnSwap: the reference is swapped before it is closed.
ClosedOnSwapNew(old, new) == new

\* durablereporter.go:148  go r.r.Close(), evaluated before the assignment
\* of line 149: the receiver is the reporter being replaced.
ClosedOnSwap(old, new) == old

\* durablereporter.go:142  time.Now().Sub(r.lastRecovery) < r.interval
TooSoon(now, lastRecovery, interval) == now - lastRecovery < interval

\* Mutant of AssessAfterRecover: a failed recover ends the call with rerr.
AssessAfterRecoverStop(rerr, err) ==
  IF rerr # NoErr THEN [reattempt |-> FALSE, err |-> rerr]
                  ELSE [reattempt |-> TRUE, err |-> err]

\* durablereporter.go:128-131: the result of assess after the blocking
\* recover() returned rerr.
AssessAfterRecover(rerr, err) ==
  IF rerr # NoErr THEN [reattempt |-> TRUE, err |-> rerr]
                  ELSE [reattempt |-> TRUE, err |-> err]

\* Mutant of StampedRecovery: only a successful recovery is stamped.
StampedOnSuccess(err, now, lastRecovery) ==
  IF err = NoErr THEN now ELSE lastRecovery

\* durablereporter.go:151  r.lastRecovery = time.Now(), whatever err is
StampedRecovery(err, now, lastRecovery) == now

\* ------------------------------------------------------------- DR: Init

\* NewDurableReporter, lines 39-52, for given retries and interval.
DRNew(retries, interval) ==
  /\ drRetries = retries
  /\ drInterval = interval
  /\ drAttempts = Attempts(retries)
  /\ drR = 0
  /\ drLastRecovery = 0
  /\ drMutex = Unlocked
  /\ drNow = 0
  /\ drNextId = 1
  /\ drClosed = {}
  /\ drClosing = {}
  /\ drPc = [c \in Callers |-> "idle"]
  /\ drI = [c \in Callers |-> 0]
  /\ drSnap = [c \in Callers |-> 0]
  /\ drErr = [c \in Callers |-> NoErr]
  /\ drRec = [p \in Recoverers |-> IdleRec]
  /\ drInvocations = [c \in Callers |-> 0]
  /\ drLastActionErr = [c \in Callers |-> NoErr]
  /\ drAllFailed = [c \in Callers |-> TRUE]
  /\ drBlocking = [c \in Callers |-> 0]
  /\ drBackground = [c \in Callers |-> 0]
  /\ drCloseCalled = FALSE
  /\ drConstructLog = [prev |-> -1, last |-> 0]
  /\ drRivals = {}

\* ------------------------------------------------------- Poller: Init

\* Value of a mutex of the Poller or the Client that no goroutine holds.
Free == <<"free", 0>>

\* Goroutines running Poller.update: run starts one per accepted trigger
\* (line 95); at most MaxUpdates of them are alive at a time.
Updaters == {<<"update", n>> : n \in 1..MaxUpdates}
\* Goroutines calling Poller.Poll and Poller.Close.
PollCallers == {<<"poll", 1>>}
Closers == {<<"close", 1>>, <<"close", 2>>}

\* poller.New, lines 28-38.
PNew ==
  /\ pMutex = Free
  /\ pUpdating = FALSE
  /\ pClosed = FALSE
  /\ pStop = "open"
  /\ pPulse = "open"
  /\ pWaiters = {}
  /\ pRun = "select"
  /\ pUpd = [u \in Updaters |-> "none"]
  /\ pPoll = [g \in PollCallers |-> "idle"]
  /\ pClose = [k \in Closers |-> "idle"]
  /\ pSourceCloses = 0
  /\ pSpawnedBusy = [u \in Updaters |-> FALSE]
  /\ pCancelled = {}

\* ------------------------------------------------------- Client: Init

\* Server names are sequences of characters.
Names == {<<"a">>, <<"A">>, <<"b">>}

\* strings.ToLower on the characters that occur in Names.
LowerChar(ch) == CASE ch = "A" -> "a"
                   [] ch = "B" -> "b"
                   [] OTHER -> ch

\* client.go:98  fqdn = strings.ToLower(fqdn)
ToLower(name) == [i \in DOMAIN name |-> LowerChar(name[i])]

\* The keys Client.servers can get.
Fqdns == {ToLower(n) : n \in Names}

\* Goroutines calling Client.Vector, Client.Backlog and Client.Close.
VectorCallers == {<<"vector", 1>>, <<"vector", 2>>}
BacklogCallers == {<<"backlog", 1>>}
ClientClosers == {<<"close", 1>>}
ClientCallers == VectorCallers \cup BacklogCallers \cup ClientClosers

\* A Backlog call before it has done anything: no source session, no vector.
IdleBacklog == [from |-> <<>>, f |-> 0, v |-> 0, obtained |-> 0,
                released |-> 0, calls |-> <<>>]

\* client.go:120  NewLimiter(r, 1)
LimiterCapacity == 1

\* NewClient, lines 25-29: no servers, caching off.
CNew ==
  /\ cM = Free
  /\ cServers = [f \in Fqdns |-> 0]
  /\ cSessions = <<>>
  /\ cPc = [g \in ClientCallers |-> "idle"]
  /\ cName = [g \in ClientCallers |-> <<>>]
  /\ cSess = [g \in ClientCallers |-> 0]
  /\ cErr = [g \in ClientCallers |-> NoErr]
  /\ cReached = [g \in ClientCallers |-> 0]
  /\ cConstructed = [f \in Fqdns |-> 0]
  /\ cBk = [g \in BacklogCallers |-> IdleBacklog]
  /\ cAtCall = [g \in VectorCallers |-> [seen |-> 0, retry |-> FALSE]]

\* ------------------------------------------------ vectorWorkPool: Init

\* Goroutines calling vectorWorkPool.Vector: one more than the largest pool
\* has workers.
Submitters == {<<"submit", i>> : i \in 1..(MaxWorkers + 1)}
\* The job of a worker that has none.
NoJob == <<"submit", 0>>
\* The replication groups asked for.
Groups == {"g1", "g2"}

\* A vectorWorkResult nothing has been stored in.
NoResult == [Vector |-> <<>>, Call |-> <<>>, Err |-> NoErr]
IdleWorker == [state |-> "idle", job |-> NoJob, group |-> "", result |-> NoResult]
IdleSubmitter == [pc |-> "idle", group |-> "", result |-> NoResult]

\* Before newVectorWorkPool is called.
WNew ==
  /\ wRequested = -1
  /\ wPool = "unbuilt"
  /\ wErr = NoErr
  /\ wWorker = <<>>
  /\ wSub = [g \in Submitters |-> IdleSubmitter]
  /\ wProduced = [g \in Submitters |-> NoResult]

DRInit ==
  /\ \E retries \in 0..MaxRetries, interval \in 0..MaxInterval :
       DRNew(retries, interval)
  /\ WNew
  /\ PNew
  /\ CNew

\* ---------------------------------------------------------- DR: actions

\* Variables no action of a caller's own control flow changes.
drConfig == <<drRetries, drInterval, drAttempts>>

\* A caller enters Vector, Backlog or Report (lines 54-91), which all run
\* attempt(action); lines 98-99 initialise the loop.
DRCall(c) ==
  /\ drPc[c] = "idle"
  /\ drPc' = [drPc EXCEPT ![c] = "loop"]
  /\ drI' = [drI EXCEPT ![c] = 0]
  /\ drErr' = [drErr EXCEPT ![c] = NoErr]
  /\ UNCHANGED <<drOthers, drConfig, drRivals, drR, drLastRecovery, drMutex,
                 drNow, drNextId, drClosed, drClosing, drSnap, drRec,
                 drInvocations, drLastActionErr, drAllFailed, drBlocking,
                 drBackground, drCloseCalled, drConstructLog>>

\* attempt, lines 99-102: the loop test and the snapshot of r.r under RLock
\* (the shared lock is granted only while no goroutine holds the exclusive
\* lock).  Line 110 is the return after the loop.
DRSnapshot(c) ==
  /\ drPc[c] = "loop"
  /\ IF drI[c] < drAttempts
       THEN /\ drMutex = Unlocked
            /\ drSnap' = [drSnap EXCEPT ![c] = drR]
            /\ drPc' = [drPc EXCEPT ![c] = "action"]
       ELSE /\ drPc' = [drPc EXCEPT ![c] = "done"]
            /\ UNCHANGED drSnap
  /\ UNCHANGED <<drOthers, drConfig, drRivals, drR, drLastRecovery, drMutex,
                 drNow, drNextId, drClosed, drClosing, drI, drErr, drRec,
                 drInvocations, drLastActionErr, drAllFailed, drBlocking,
                 drBackground, drCloseCalled, drConstructLog>>

\* attempt, line 104: err = action(reporter).  A reporter that has been
\* closed answers ErrClosed; an open one succeeds or fails.
ActionOutcomes(reporter) ==
  IF reporter \in drClosed THEN {ErrClosed} ELSE {NoErr, ErrDisconnected}

\* attempt, lines 104-108, and assess, lines 115-128 up to the call of
\* recover: the action is invoked and its error assessed.
DRInvoke(c) ==
  /\ drPc[c] = "action"
  /\ drInvocations' = [drInvocations EXCEPT ![c] = @ + 1]
  /\ \E e \in ActionOutcomes(drSnap[c]) :
       /\ drErr' = [drErr EXCEPT ![c] = e]
       /\ drLastActionErr' = [drLastActionErr EXCEPT ![c] = e]
       /\ drAllFailed' = [drAllFailed EXCEPT
                            ![c] = @ /\ e # NoErr /\ e # ErrClosed]
       /\ IF e = NoErr \/ IsClosedErr(e)
            THEN \* return false, err
                 /\ drPc' = [drPc EXCEPT ![c] = "done"]
                 /\ UNCHANGED <<drRec, drBlocking, drBackground>>
            ELSE IF NoMoreRetries(drI[c], drAttempts)
              THEN \* go r.recover(reporter); return false, err
                   /\ drRec' = [drRec EXCEPT ![Bg(c)] =
                                  [IdleRec EXCEPT !.pc = "enter",
                                                  !.reporter = drSnap[c]]]
                   /\ drBackground' = [drBackground EXCEPT ![c] = @ + 1]
                   /\ drPc' = [drPc EXCEPT ![c] = "done"]
                   /\ UNCHANGED drBlocking
              ELSE \* rerr := r.recover(reporter)
                   /\ drRec' = [drRec EXCEPT ![Fg(c)] =
                                  [IdleRec EXCEPT !.pc = "enter",
                                                  !.reporter = drSnap[c]]]
                   /\ drBlocking' = [drBlocking EXCEPT ![c] = @ + 1]
                   /\ drPc' = [drPc EXCEPT ![c] = "recover"]
                   /\ UNCHANGED drBackground
  \* the local variable reporter is not read again before line 101
  /\ drSnap' = [drSnap EXCEPT ![c] = 0]
  /\ UNCHANGED <<drOthers, drConfig, drRivals, drR, drLastRecovery, drMutex,
                 drNow, drNextId, drClosed, drClosing, drI, drCloseCalled,
                 drConstructLog>>

\* What the return of recover() with error rerr does to the goroutine that
\* ran it.  A caller finishes assess (lines 128-131) and, when told to
\* reattempt, steps the loop of attempt (lines 105-109, i++); a background
\* goroutine ends.
RecoverReturns(p, rerr) ==
  IF p \in Fgs
    THEN LET c == CallerOf(p)
             res == AssessAfterRecover(rerr, drErr[c])
         IN /\ drErr' = [drErr EXCEPT ![c] = res.err]
            /\ IF res.reattempt
                 THEN /\ drI' = [drI EXCEPT ![c] = @ + 1]
                      /\ drPc' = [drPc EXCEPT ![c] = "loop"]
                 ELSE /\ drPc' = [drPc EXCEPT ![c] = "done"]
                      /\ UNCHANGED drI
    ELSE UNCHANGED <<drErr, drI, drPc>>

\* The other goroutines that have called recover with the snapshot of p and
\* wait for the exclusive lock of line 136.
Waiting(p) ==
  {q \in Recoverers \ {p} : /\ drRec[q].pc = "enter"
                             /\ drRec[q].reporter = drRec[p].reporter}

\* recover, lines 136-146: take the exclusive lock and run the two checks;
\* when either one fails the deferred Unlock runs at once.  Otherwise
\* reporter, err = NewReporter(r.server) is invoked, which succeeds or fails.
DRRecoverEnter(p) ==
  /\ drRec[p].pc = "enter"
  /\ drMutex = Unlocked
  /\ IF \/ AlreadyRecovered(drR, drRec[p].reporter)
        \/ TooSoon(drNow, drLastRecovery, drInterval)
       THEN /\ drRec' = [drRec EXCEPT ![p] = IdleRec]
            /\ drRivals' = drRivals \ {p}
            /\ RecoverReturns(p, NoErr)
            /\ UNCHANGED <<drMutex, drNextId, drConstructLog>>
       ELSE /\ drMutex' = p
            /\ drConstructLog' = [prev |-> drConstructLog.last, last |-> drNow]
            /\ drRivals' = drRivals \cup Waiting(p)
            /\ \E ok \in BOOLEAN :
                 IF ok
                   THEN /\ drRec' = [drRec EXCEPT ![p].pc = "finish",
                                                  ![p].new = drNextId,
                                                  ![p].err = NoErr]
                        /\ drNextId' = drNextId + 1
                   ELSE /\ drRec' = [drRec EXCEPT ![p].pc = "finish",
                                                  ![p].err = ErrRecreate]
                        /\ UNCHANGED drNextId
            /\ UNCHANGED <<drErr, drI, drPc>>
  /\ UNCHANGED <<drOthers, drConfig, drR, drLastRecovery, drNow, drClosed,
                 drClosing, drSnap, drInvocations, drLastActionErr,
                 drAllFailed, drBlocking, drBackground, drCloseCalled>>

\* recover, lines 147-152: on success launch the Close of the old reporter
\* and swap; stamp lastRecovery; the deferred Unlock; return err.
DRRecoverFinish(p) ==
  /\ drRec[p].pc = "finish"
  /\ IF drRec[p].err = NoErr
       THEN /\ drClosing' = drClosing \cup {ClosedOnSwap(drR, drRec[p].new)}
            /\ drR' = drRec[p].new
       ELSE UNCHANGED <<drClosing, drR>>
  /\ drRivals' = drRivals \ {p}
  /\ drLastRecovery' = StampedRecovery(drRec[p].err, drNow, drLastRecovery)
  /\ drMutex' = Unlocked
  /\ drRec' = [drRec EXCEPT ![p] = IdleRec]
  /\ RecoverReturns(p, drRec[p].err)
  /\ UNCHANGED <<drOthers, drConfig, drNow, drNextId, drClosed, drSnap,
                 drInvocations, drLastActionErr, drAllFailed, drBlocking,
                 drBackground, drCloseCalled, drConstructLog>>

\* The goroutine of line 148 (go r.r.Close()) runs.
DRCloseOld(s) ==
  /\ s \in drClosing
  /\ drClosing' = drClosing \ {s}
  /\ drClosed' = drClosed \cup {s}
  /\ UNCHANGED <<drOthers, drConfig, drRivals, drR, drLastRecovery, drMutex,
                 drNow, drNextId, drPc, drI, drSnap, drErr, drRec,
                 drInvocations, drLastActionErr, drAllFailed, drBlocking,
                 drBackground, drCloseCalled, drConstructLog>>

\* durableReporter.Close, lines 93-95: closes the active reporter.
DRClose ==
  /\ ~drCloseCalled
  /\ drCloseCalled' = TRUE
  /\ drClosed' = drClosed \cup {drR}
  /\ UNCHANGED <<drOthers, drConfig, drRivals, drR, drLastRecovery, drMutex,
                 drNow, drNextId, drClosing, drPc, drI, drSnap, drErr, drRec,
                 drInvocations, drLastActionErr, drAllFailed, drBlocking,
                 drBackground, drConstructLog>>

\* Time passes.
DRTick ==
  /\ drNow < MaxTime
  /\ drNow' = drNow + 1
  /\ UNCHANGED <<drOthers, drConfig, drRivals, drR, drLastRecovery, drMutex,
                 drNextId, drClosed, drClosing, drPc, drI, drSnap, drErr,
                 drRec, drInvocations, drLastActionErr, drAllFailed,
                 drBlocking, drBackground, drCloseCalled, drConstructLog>>

DRNext ==
  \/ \E c \in Callers : DRCall(c)
  \/ \E c \in Callers : DRSnapshot(c)
  \/ \E c \in Callers : DRInvoke(c)
  \/ \E p \in Recoverers : DRRecoverEnter(p)
  \/ \E p \in Recoverers : DRRecoverFinish(p)
  \/ \E s \in 0..(drNextId - 1) : DRCloseOld(s)
  \/ DRClose
  \/ DRTick

SpecDR == DRInit /\ [][DRNext]_vars

\* ------------------------------------------------- DR: claims C1-C3, C9, C10

\* A call has returned to attempt's caller and every invocation of the
\* action it made failed with an error other than ErrClosed.
AlwaysFailed(c) == drPc[c] = "done" /\ drAllFailed[c]

\* A recreation was attempted and every NewReporter of recover failed.
OnlyFailedRecreations == drConstructLog.prev # -1 /\ drNextId = 1

\* C1: with retries = R, a call whose action fails every time with an error
\* other than already-closed has invoked the action exactly R+1 times when
\* the error is returned, whatever the recreation attempts did.
C1_ExactlyRetriesPlusOne ==
  \A c \in Callers : AlwaysFailed(c) => drInvocations[c] = drRetries + 1

C1_Witness ==
  \E c \in Callers :
    /\ AlwaysFailed(c)
    /\ drRetries >= 1
    /\ drInvocations[c] = drRetries + 1
    /\ OnlyFailedRecreations

\* C2 as stated: an always-failing call triggers at most R recreation
\* attempts, blocking and background ones counted together.
C2_AtMostRetriesRecreations ==
  \A c \in Callers :
    AlwaysFailed(c) => drBlocking[c] + drBackground[c] <= drRetries

\* C2 amended: a call triggers at most R blocking recreation attempts and at
\* most one background one; an always-failing call triggers exactly R
\* blocking ones and the background one, R+1 in total.
C2_RetriesPlusOneRecreations ==
  \A c \in Callers :
    /\ drBlocking[c] <= drRetries
    /\ drBackground[c] <= 1
    /\ AlwaysFailed(c) => /\ drBlocking[c] = drRetries
                          /\ drBackground[c] = 1

C2_Witness ==
  \E c \in Callers :
    /\ AlwaysFailed(c)
    /\ drRetries >= 1
    /\ drBlocking[c] = drRetries
    /\ drBackground[c] = 1

\* C3: two consecutive invocations of NewReporter (the one of
\* NewDurableReporter included, successful or failed) are at least interval
\* apart, and outside recover lastRecovery is not older than the last of
\* them: a failed construction is stamped too.
C3_MinimumInterval ==
  /\ drConstructLog.prev # -1 =>
       drConstructLog.last - drConstructLog.prev >= drInterval
  /\ drMutex = Unlocked => drLastRecovery >= drConstructLog.last

\* Two recreations, both failed, under a positive interval.
C3_Witness ==
  /\ drInterval >= 1
  /\ drConstructLog.prev >= 1
  /\ drNextId = 1
  /\ drMutex = Unlocked

\* C9: when an invocation of the action returns ErrClosed the call returns
\* ErrClosed at once: the action is not invoked again and neither a blocking
\* nor a background recover is started for it.
C9_ClosedIsTerminal ==
  \A c \in Callers :
    drLastActionErr[c] = ErrClosed =>
      /\ drPc[c] = "done"
      /\ drErr[c] = ErrClosed
      /\ drBackground[c] = 0
      /\ drBlocking[c] = drInvocations[c] - 1
      /\ drRec[Fg(c)].pc = "none"
      /\ drRec[Bg(c)].pc = "none"

\* ErrClosed came back while retries were left.
C9_Witness ==
  \E c \in Callers :
    /\ drLastActionErr[c] = ErrClosed
    /\ drPc[c] = "done"
    /\ drI[c] + 1 < drAttempts

\* C10: the error a call returns is the error of the last invocation of the
\* action it made, never the error of recover.
C10_LastActionError ==
  \A c \in Callers :
    drPc[c] = "done" => /\ drInvocations[c] >= 1
                        /\ drErr[c] = drLastActionErr[c]
                        /\ drErr[c] # ErrRecreate

\* A call has returned the action's error after a failed recreation, while
\* the background recover it launched has not run yet.
C10_Witness ==
  \E c \in Callers :
    /\ drPc[c] = "done"
    /\ drErr[c] = ErrDisconnected
    /\ drBlocking[c] >= 1
    /\ OnlyFailedRecreations
    /\ drRec[Bg(c)].pc = "enter"

\* -------------------------------------- DR: claims C16, C18, C19, C20

\* C16: when the blocking recover of a call has failed, the call has
\* returned with the error of recover, and so invokes the action no more.
C16_RecreateFailureReturned ==
  \A c \in Callers : drErr[c] = ErrRecreate => drPc[c] = "done"

\* C18 as stated: a goroutine that was waiting to enter recover for a
\* snapshot when another one constructed for that snapshot never constructs.
C18_OthersNeverConstruct ==
  \A q \in drRivals : drRec[q].pc # "finish"

\* C18, amended: NewReporter is invoked only by the one goroutine holding
\* the exclusive lock and only for a snapshot that is still the active
\* reference, so a goroutine whose snapshot has been replaced constructs
\* nothing and stamps nothing; and the sessions constructed replace one
\* another in a single chain, each snapshot being replaced at most once.
C18_ConstructsOnlyForActive ==
  /\ \A p \in Recoverers :
       drRec[p].pc = "finish" => /\ drRec[p].reporter = drR
                                 /\ drMutex = p
  /\ \/ drR = drNextId - 1
     \/ \E p \in Recoverers : /\ drRec[p].pc = "finish"
                               /\ drRec[p].err = NoErr
                               /\ drRec[p].new = drNextId - 1
                               /\ drR = drNextId - 2

\* A goroutine that waited while another one replaced their common snapshot
\* is about to enter recover.
C18_Witness ==
  \E q \in drRivals : /\ drRec[q].pc = "enter"
                       /\ drRec[q].reporter # drR
                       /\ drMutex = Unlocked

\* C19: Close and attempt read the active reference only while no other
\* goroutine holds the exclusive lock, and the reference and lastRecovery
\* change only in steps of the goroutine holding the exclusive lock.
C19_AccessUnderLock ==
  [][/\ drCloseCalled' # drCloseCalled => drMutex = Unlocked
     /\ (\E c \in Callers : drPc[c] = "loop" /\ drPc'[c] = "action")
          => drMutex = Unlocked
     /\ (drR' # drR \/ drLastRecovery' # drLastRecovery)
          => drMutex \in Recoverers]_vars

\* C20: a successful recreation makes the new session the active one and
\* hands the session it replaced, which was not handed before, to an
\* asynchronous Close, returning before that Close has run; the active
\* session is never handed to that Close; a failed recreation changes
\* neither the active reference nor the sessions closed or to be closed.
C20_OldClosedOnSwap ==
  /\ [](drR \notin drClosing)
  /\ [][/\ drR' # drR
            => /\ \E p \in Recoverers : /\ drRec[p].pc = "finish"
                                         /\ drRec[p].err = NoErr
                                         /\ drR' = drRec[p].new
                                         /\ drRec'[p].pc = "none"
               /\ drR \notin drClosing
               /\ drClosing' = drClosing \cup {drR}
               /\ drClosed' = drClosed
               /\ drMutex' = Unlocked
        /\ drR' = drR => drClosing' \subseteq drClosing
        /\ \A p \in Recoverers :
             (drRec[p].pc = "finish" /\ drRec'[p].pc # "finish")
               => IF drRec[p].err = NoErr
                    THEN drR' = drRec[p].new
                    ELSE /\ drR' = drR
                         /\ drClosing' = drClosing
                         /\ drClosed' = drClosed]_vars

\* The session constructed by a recreation is active and not closed, and
\* the one it replaced waits for its asynchronous Close.
C20_Witness ==
  /\ drR >= 1
  /\ drR - 1 \in drClosing
  /\ drR - 1 \notin drClosed
  /\ drR \notin drClosed
  /\ drMutex = Unlocked

\* C22: while Close has not been called on the durableReporter, no call
\* holds or returns ErrClosed.
C22_NoClosedFromRecovery ==
  \A c \in Callers : ~drCloseCalled => drErr[c] # ErrClosed

\* ------------------------------------------------------ Poller: helpers

\* Mutant of CanStart: an update starts also after Close.
CanStartWhenClosed(closed, updating) == ~updating

\* Mutant of CanStart: an update starts also while another one is running.
CanStartWhileUpdating(closed, updating) == ~closed

\* poller.go:115  !p.closed && !p.updating
CanStart(closed, updating) == ~closed /\ ~updating

\* Mutant of MaySend: Poll sends whether the poller is closed or not.
MaySendWhenClosed(closed) == TRUE

\* poller.go:70  if !p.closed
MaySend(closed) == ~closed

\* Mutant of MustWait: Close does not wait for the running update.
MustWaitNever(updating) == FALSE

\* poller.go:58  for p.updating { p.idle.Wait() }
MustWait(updating) == updating

\* Mutant of CtxOf: one context, made before the loop, serves every update.
CtxShared(u) == <<"ctx", 1>>

\* run, lines 86 and 95: every turn of the loop makes a context of its own
\* and hands it, with its cancel function, to the goroutine it starts.
CtxOf(u) == <<"ctx", u[2]>>

\* The context of the turn of the loop in which run finds stop closed: it
\* has been handed to no goroutine.
RunCtx == <<"ctx", 0>>

\* An update goroutine that is not alive, for the go statement of line 95.
FreshUpdater == CHOOSE u \in Updaters : pUpd[u] = "none"

\* ------------------------------------------------------ Poller: actions

\* run, line 95: go p.update(ctx, cancel), after the select of lines 87-93
\* has received a trigger.  The go statement never blocks run: while
\* MaxUpdates update goroutines are alive a further trigger starts none.
Spawn ==
  IF \E u \in Updaters : pUpd[u] = "none"
    THEN /\ pUpd' = [pUpd EXCEPT ![FreshUpdater] = "start"]
         /\ pSpawnedBusy' = [pSpawnedBusy EXCEPT ![FreshUpdater] = pUpdating]
         /\ pCancelled' = pCancelled \ {CtxOf(FreshUpdater)}
    ELSE UNCHANGED <<pUpd, pSpawnedBusy, pCancelled>>

\* run, lines 88-90: the stop channel is closed; run returns.
PRunStop ==
  /\ pRun = "select"
  /\ pStop = "closed"
  /\ pRun' = "stopped"
  /\ pCancelled' = pCancelled \cup {RunCtx}
  /\ UNCHANGED <<pOthers, pSpawnedBusy, pMutex, pUpdating, pClosed, pStop,
                 pPulse, pWaiters, pUpd, pPoll, pClose, pSourceCloses>>

\* run, line 91, together with Poll, line 71: the unbuffered pulse channel
\* hands the value of a sender to the select.
PRunPulse(g) ==
  /\ pRun = "select"
  /\ pPoll[g] = "send"
  /\ pPulse = "open"
  /\ Spawn
  /\ pPoll' = [pPoll EXCEPT ![g] = "unlock"]
  /\ UNCHANGED <<pOthers, pMutex, pUpdating, pClosed, pStop, pPulse, pWaiters,
                 pRun, pClose, pSourceCloses>>

\* run, line 91: a receive from the closed pulse channel succeeds at once.
PRunPulseClosed ==
  /\ pRun = "select"
  /\ pPulse = "closed"
  /\ Spawn
  /\ UNCHANGED <<pOthers, pMutex, pUpdating, pClosed, pStop, pPulse, pWaiters,
                 pRun, pPoll, pClose, pSourceCloses>>

\* run, line 92: the ticker has fired.
PRunTick ==
  /\ pRun = "select"
  /\ Spawn
  /\ UNCHANGED <<pOthers, pMutex, pUpdating, pClosed, pStop, pPulse, pWaiters,
                 pRun, pPoll, pClose, pSourceCloses>>

\* update, lines 102-106, with startUpdate, lines 113-121; when the update
\* is not started the deferred cancel of line 100 runs.
PStartUpdate(u) ==
  /\ pUpd[u] = "start"
  /\ pMutex = Free
  /\ IF CanStart(pClosed, pUpdating)
       THEN /\ pUpdating' = TRUE
            /\ pUpd' = [pUpd EXCEPT ![u] = "poll"]
            /\ UNCHANGED pCancelled
       ELSE /\ pUpd' = [pUpd EXCEPT ![u] = "none"]
            /\ pCancelled' = pCancelled \cup {CtxOf(u)}
            /\ UNCHANGED pUpdating
  /\ UNCHANGED <<pOthers, pSpawnedBusy, pMutex, pClosed, pStop, pPulse,
                 pWaiters, pRun, pPoll, pClose, pSourceCloses>>

\* update, line 108: p.source.Poll(ctx) returns.
PPollReturn(u) ==
  /\ pUpd[u] = "poll"
  /\ pUpd' = [pUpd EXCEPT ![u] = "finish"]
  /\ UNCHANGED <<pOthers, pCancelled, pSpawnedBusy, pMutex, pUpdating, pClosed, pStop,
                 pPulse, pWaiters, pRun, pPoll, pClose, pSourceCloses>>

\* finishUpdate, lines 124-126.
PFinishUpdate(u) ==
  /\ pUpd[u] = "finish"
  /\ pMutex = Free
  /\ pUpdating' = FALSE
  /\ pUpd' = [pUpd EXCEPT ![u] = "broadcast"]
  /\ UNCHANGED <<pOthers, pCancelled, pSpawnedBusy, pMutex, pClosed, pStop, pPulse,
                 pWaiters, pRun, pPoll, pClose, pSourceCloses>>

\* finishUpdate, line 127: p.idle.Broadcast() wakes every goroutine in Wait,
\* which then has to take the mutex again; update returns and the deferred
\* cancel of line 100 runs.
PBroadcast(u) ==
  /\ pUpd[u] = "broadcast"
  /\ pClose' = [k \in Closers |->
                  IF k \in pWaiters THEN "relock" ELSE pClose[k]]
  /\ pWaiters' = {}
  /\ pUpd' = [pUpd EXCEPT ![u] = "none"]
  /\ pCancelled' = pCancelled \cup {CtxOf(u)}
  /\ UNCHANGED <<pOthers, pSpawnedBusy, pMutex, pUpdating, pClosed, pStop,
                 pPulse, pRun, pPoll, pSourceCloses>>

\* A goroutine calls Poller.Poll.
PPollCall(g) ==
  /\ pPoll[g] = "idle"
  /\ pPoll' = [pPoll EXCEPT ![g] = "lock"]
  /\ UNCHANGED <<pOthers, pCancelled, pSpawnedBusy, pMutex, pUpdating, pClosed, pStop,
                 pPulse, pWaiters, pRun, pUpd, pClose, pSourceCloses>>

\* Poll, lines 69-73: with the mutex held, start to send on pulse unless the
\* poller is closed.
PPollLock(g) ==
  /\ pPoll[g] = "lock"
  /\ pMutex = Free
  /\ IF MaySend(pClosed)
       THEN /\ pMutex' = g
            /\ pPoll' = [pPoll EXCEPT ![g] = "send"]
       ELSE /\ pPoll' = [pPoll EXCEPT ![g] = "idle"]
            /\ UNCHANGED pMutex
  /\ UNCHANGED <<pOthers, pCancelled, pSpawnedBusy, pUpdating, pClosed, pStop, pPulse,
                 pWaiters, pRun, pUpd, pClose, pSourceCloses>>

\* Poll, line 73, after the send has been received.
PPollUnlock(g) ==
  /\ pPoll[g] = "unlock"
  /\ pMutex' = Free
  /\ pPoll' = [pPoll EXCEPT ![g] = "idle"]
  /\ UNCHANGED <<pOthers, pCancelled, pSpawnedBusy, pUpdating, pClosed, pStop, pPulse,
                 pWaiters, pRun, pUpd, pClose, pSourceCloses>>

\* A goroutine calls Poller.Close.
PCloseCall(k) ==
  /\ pClose[k] = "idle"
  /\ pClose' = [pClose EXCEPT ![k] = "lock"]
  /\ UNCHANGED <<pOthers, pCancelled, pSpawnedBusy, pMutex, pUpdating, pClosed, pStop,
                 pPulse, pWaiters, pRun, pUpd, pPoll, pSourceCloses>>

\* Close, lines 58-62, with the mutex held by k: wait on idle while an update
\* is running (Wait enqueues k and releases the mutex), else call
\* source.Close.
WaitOrCloseSource(k) ==
  IF MustWait(pUpdating)
    THEN /\ pWaiters' = pWaiters \cup {k}
         /\ pClose' = [pClose EXCEPT ![k] = "wait"]
         /\ pMutex' = Free
         /\ UNCHANGED pSourceCloses
    ELSE /\ pClose' = [pClose EXCEPT ![k] = "closing"]
         /\ pMutex' = k
         /\ pSourceCloses' = pSourceCloses + 1
         /\ UNCHANGED pWaiters

\* Close, lines 44-58: already closed, return; else mark closed and close
\* both channels, then wait or close the source.
PCloseLock(k) ==
  /\ pClose[k] = "lock"
  /\ pMutex = Free
  /\ IF pClosed
       THEN /\ pClose' = [pClose EXCEPT ![k] = "noop"]
            /\ UNCHANGED <<pMutex, pClosed, pStop, pPulse, pWaiters,
                           pSourceCloses>>
       ELSE /\ pClosed' = TRUE
            /\ pStop' = "closed"
            /\ pPulse' = "closed"
            /\ WaitOrCloseSource(k)
  /\ UNCHANGED <<pOthers, pCancelled, pSpawnedBusy, pUpdating, pRun, pUpd, pPoll>>

\* Close, lines 58-60: woken from Wait, k takes the mutex again and tests
\* p.updating again.
PCloseRelock(k) ==
  /\ pClose[k] = "relock"
  /\ pMutex = Free
  /\ WaitOrCloseSource(k)
  /\ UNCHANGED <<pOthers, pCancelled, pSpawnedBusy, pUpdating, pClosed, pStop, pPulse,
                 pRun, pUpd, pPoll>>

\* Close, lines 62-63: source.Close returns, the mutex is released.
PCloseReturn(k) ==
  /\ pClose[k] = "closing"
  /\ pMutex' = Free
  /\ pClose' = [pClose EXCEPT ![k] = "done"]
  /\ UNCHANGED <<pOthers, pCancelled, pSpawnedBusy, pUpdating, pClosed, pStop, pPulse,
                 pWaiters, pRun, pUpd, pPoll, pSourceCloses>>

PNext ==
  \/ PRunStop
  \/ \E g \in PollCallers : PRunPulse(g)
  \/ PRunPulseClosed
  \/ PRunTick
  \/ \E u \in Updaters : PStartUpdate(u)
  \/ \E u \in Updaters : PPollReturn(u)
  \/ \E u \in Updaters : PFinishUpdate(u)
  \/ \E u \in Updaters : PBroadcast(u)
  \/ \E g \in PollCallers : PPollCall(g)
  \/ \E g \in PollCallers : PPollLock(g)
  \/ \E g \in PollCallers : PPollUnlock(g)
  \/ \E k \in Closers : PCloseCall(k)
  \/ \E k \in Closers : PCloseLock(k)
  \/ \E k \in Closers : PCloseRelock(k)
  \/ \E k \in Closers : PCloseReturn(k)

PInit ==
  /\ PNew
  /\ WNew
  /\ DRNew(0, 0)
  /\ CNew

SpecPoller == PInit /\ [][PNext]_vars

\* The goroutines of the poller are scheduled fairly: a step of run, update,
\* Poll or Close that stays possible is taken.  Nothing is assumed about the
\* callers calling Poll or Close, nor about source.Poll returning.
PFairness ==
  /\ WF_vars(PRunStop)
  /\ \A g \in PollCallers : /\ WF_vars(PRunPulse(g))
                            /\ WF_vars(PPollLock(g))
                            /\ WF_vars(PPollUnlock(g))
  /\ \A u \in Updaters : /\ WF_vars(PStartUpdate(u))
                         /\ WF_vars(PFinishUpdate(u))
                         /\ WF_vars(PBroadcast(u))
  /\ \A k \in Closers : /\ WF_vars(PCloseLock(k))
                        /\ WF_vars(PCloseRelock(k))
                        /\ WF_vars(PCloseReturn(k))

FairSpecPoller == SpecPoller /\ PFairness

\* ------------------------------------------------- Poller: claims C4, C5

\* The invocations of source.Poll in flight.
InFlight == {u \in Updaters : pUpd[u] = "poll"}

\* The Close calls that have called source.Close.
ClosedSource == {k \in Closers : pClose[k] \in {"closing", "done"}}

\* C4: at most one invocation of source.Poll is in flight.
C4_SinglePollInFlight == Cardinality(InFlight) <= 1

\* A poll is in flight while another update goroutine has been started by a
\* Poll() call and a Close is waiting.
C4_Witness ==
  /\ InFlight # {}
  /\ \E u \in Updaters : pUpd[u] = "start"
  /\ \E g \in PollCallers : pPoll[g] = "unlock"

\* C5: a Close call calls source.Close, and returns, only while no poll is
\* in flight; source.Close is called at most once, and not by a Close call
\* that found the poller closed; and a Close call waiting in idle.Wait
\* returns once no poll is in flight any more.
C5_CloseWaitsForPoll ==
  /\ [](/\ ClosedSource # {} => (InFlight = {} /\ ~pUpdating)
        /\ pSourceCloses = Cardinality(ClosedSource)
        /\ pSourceCloses <= 1)
  /\ \A k \in Closers :
       (pClose[k] = "wait" /\ InFlight = {}) ~> (pClose[k] = "done")

\* A Close call waits for the poll in flight while a second Close call has
\* returned without effect.
C5_Witness ==
  \E k, j \in Closers :
    /\ pClose[k] = "wait"
    /\ InFlight # {}
    /\ pClose[j] = "noop"
    /\ pSourceCloses = 0

\* ------------------------------------- Poller: claims C14, C15, C17

\* C14: once the poller is closed no invocation of source.Poll begins, so
\* none is in flight once source.Close has been called; a Poll() call sends
\* only on the open channel of a poller that is not closed, and on a closed
\* poller it returns without changing anything.
C14_NoPollAfterClose ==
  /\ [](/\ pSourceCloses > 0 => InFlight = {}
        /\ \A g \in PollCallers :
             pPoll[g] \in {"send", "unlock"}
               => (~pClosed /\ pPulse = "open" /\ pSourceCloses = 0))
  /\ [][/\ pClosed => InFlight' \subseteq InFlight
        /\ \A g \in PollCallers :
             (pClosed /\ pPoll[g] = "lock" /\ pPoll'[g] # "lock")
               => /\ pPoll'[g] = "idle"
                  /\ UNCHANGED <<pMutex, pUpdating, pClosed, pStop, pPulse,
                                 pWaiters, pRun, pUpd, pClose, pSourceCloses>>]_vars

\* The poller is closed and source.Close has been called while an update
\* goroutine started earlier has not run startUpdate yet and a Poll() call
\* is about to take the mutex.
C14_Witness ==
  /\ pClosed
  /\ pSourceCloses = 1
  /\ \E u \in Updaters : pUpd[u] = "start"
  /\ \E g \in PollCallers : pPoll[g] = "lock"

\* C15: a Poll() call in progress returns, whether or not an invocation of
\* source.Poll ever returns; while it is sending, run is at its select.
C15_PollReturns ==
  /\ [](\A g \in PollCallers : pPoll[g] = "send" => pRun = "select")
  /\ \A g \in PollCallers : (pPoll[g] # "idle") ~> (pPoll[g] = "idle")

\* A Poll() call has been received while an invocation of source.Poll is in
\* flight and a Close call is waiting for the mutex.
C15_Witness ==
  \E g \in PollCallers, k \in Closers :
    /\ pPoll[g] = "unlock"
    /\ InFlight # {}
    /\ pClose[k] = "lock"

\* C17 as stated: no invocation of source.Poll is made by an update
\* goroutine whose trigger run received while an update was running.
C17_BusyTriggerNeverPolls ==
  \A u \in Updaters : pUpd[u] = "poll" => ~pSpawnedBusy[u]

\* C17, amended: an update goroutine that runs startUpdate while an update
\* is running returns without invoking source.Poll and without changing
\* the poller, and every invocation of source.Poll is begun by a goroutine
\* that ran startUpdate while no update was running.
C17_BusyStartNeverPolls ==
  [][\A u \in Updaters :
       /\ (pUpdating /\ pUpd[u] = "start" /\ pUpd'[u] # "start")
            => /\ pUpd'[u] = "none"
               /\ UNCHANGED <<pMutex, pUpdating, pClosed, pWaiters>>
               /\ InFlight' = InFlight
       /\ (pUpd[u] # "poll" /\ pUpd'[u] = "poll")
            => (pUpd[u] = "start" /\ ~pUpdating /\ pUpdating')]_vars

\* An update goroutine whose trigger was received while an update was
\* running is about to run startUpdate while that update is still running.
C17_Witness ==
  \E u \in Updaters :
    /\ pUpd[u] = "start"
    /\ pSpawnedBusy[u]
    /\ pUpdating
    /\ InFlight # {}

\* ------------------------------------------------------ Client: actions

\* The calls in flight inside session s, behind its limiter.
InSession(s) ==
  {g \in VectorCallers \cup BacklogCallers :
     \/ cPc[g] \in {"remote", "to_remote"} /\ cSess[g] = s
     \/ cPc[g] = "from_remote" /\ cBk[g].f = s}

\* create, lines 115-118: the session NewReporter returns, a new identity
\* or nil (0) with an error.
Created(sessions, err) == IF err = NoErr THEN Len(sessions) + 1 ELSE 0

\* Mutant of ServersAfterCreate: the early return of line 109 is missing and
\* whatever create returned is stored.
ServersAfterCreateAlways(servers, fqdn, r, err) ==
  [servers EXCEPT ![fqdn] = r]

\* server, lines 107-111: when create fails the map is left alone, else the
\* session is stored under the lower-case name.
ServersAfterCreate(servers, fqdn, r, err) ==
  IF err # NoErr THEN servers ELSE [servers EXCEPT ![fqdn] = r]

\* Mutant of DeferredRelease: the vector is closed only when the backlog
\* was computed.
ReleaseOnSuccess(released, err) ==
  IF err = NoErr THEN released + 1 ELSE released

\* Backlog, line 70: defer v.Close() runs whatever f.Backlog returned.
DeferredRelease(released, err) == released + 1

\* A goroutine calls Client.Vector(server, group), line 78.
CVector(g, name) ==
  /\ cPc[g] = "idle"
  /\ cPc' = [cPc EXCEPT ![g] = "server"]
  /\ cName' = [cName EXCEPT ![g] = name]
  /\ cSess' = [cSess EXCEPT ![g] = 0]
  /\ cErr' = [cErr EXCEPT ![g] = NoErr]
  /\ cReached' = [cReached EXCEPT ![g] = 0]
  /\ cAtCall' = [cAtCall EXCEPT ![g] =
                  [seen |-> cServers[ToLower(name)],
                   retry |-> /\ cErr[g] = ErrDisconnected
                             /\ ToLower(cName[g]) = ToLower(name)]]
  /\ UNCHANGED <<cOthers, cBk, cM, cServers, cSessions, cConstructed>>

\* server, lines 98-104: the lookup under RLock (granted while no goroutine
\* holds the exclusive lock); return the session when found.
CServerLookup(g) ==
  /\ cPc[g] = "server"
  /\ cM = Free
  /\ LET r == cServers[ToLower(cName[g])]
     IN IF r # 0
          THEN /\ cSess' = [cSess EXCEPT ![g] = r]
               /\ cPc' = [cPc EXCEPT ![g] = "vector"]
          ELSE /\ cPc' = [cPc EXCEPT ![g] = "create"]
               /\ UNCHANGED cSess
  /\ UNCHANGED <<cOthers, cAtCall, cBk, cM, cServers, cSessions, cName, cErr,
                 cReached, cConstructed>>

\* server, lines 105-112, with create, lines 115-128 (caching off): under the
\* exclusive lock build a session and store it; the deferred Unlock.  When
\* NewReporter fails the error is returned and nothing is stored.
CServerCreate(g) ==
  /\ cPc[g] = "create"
  /\ cM = Free
  /\ \E err \in {NoErr, ErrDisconnected} :
       LET fqdn == ToLower(cName[g])
           r == Created(cSessions, err)
       IN /\ cServers' = ServersAfterCreate(cServers, fqdn, r, err)
          /\ IF err = NoErr
               THEN /\ cSessions' = Append(cSessions,
                                       [server |-> fqdn, closed |-> FALSE])
                    /\ cConstructed' = [cConstructed EXCEPT ![fqdn] = @ + 1]
                    /\ cSess' = [cSess EXCEPT ![g] = r]
                    /\ cPc' = [cPc EXCEPT ![g] = "vector"]
                    /\ UNCHANGED cErr
               ELSE /\ cErr' = [cErr EXCEPT ![g] = err]
                    /\ cPc' = [cPc EXCEPT ![g] = "done"]
                    /\ UNCHANGED <<cSessions, cConstructed, cSess>>
  /\ UNCHANGED <<cOthers, cAtCall, cBk, cM, cName, cReached>>

\* Vector, line 84: s.Vector(*group) enters the limiter of the session,
\* which admits a call while fewer than its capacity are inside; a closed
\* session answers ErrClosed.
CLimiterEnter(g) ==
  /\ cPc[g] = "vector"
  /\ IF cSessions[cSess[g]].closed
       THEN /\ cErr' = [cErr EXCEPT ![g] = ErrClosed]
            /\ cPc' = [cPc EXCEPT ![g] = "done"]
            /\ UNCHANGED cReached
       ELSE /\ Cardinality(InSession(cSess[g])) < LimiterCapacity
            /\ cPc' = [cPc EXCEPT ![g] = "remote"]
            /\ cReached' = [cReached EXCEPT ![g] = @ + 1]
            /\ UNCHANGED cErr
  /\ UNCHANGED <<cOthers, cAtCall, cBk, cM, cServers, cSessions, cName, cSess,
                 cConstructed>>

\* The remote invocation returns and the call leaves the limiter.
CRemoteReturn(g) ==
  /\ cPc[g] = "remote"
  /\ cPc' = [cPc EXCEPT ![g] = "done"]
  /\ UNCHANGED <<cOthers, cAtCall, cBk, cM, cServers, cSessions, cName, cSess,
                 cErr, cReached, cConstructed>>

\* Vector returns to its caller.
CReturn(g) ==
  /\ cPc[g] = "done"
  /\ cPc' = [cPc EXCEPT ![g] = "idle"]
  /\ UNCHANGED <<cOthers, cAtCall, cBk, cM, cServers, cSessions, cName, cSess,
                 cErr, cReached, cConstructed>>

\* A goroutine calls Client.Backlog(from, to, group), line 55.
CBacklog(g, from, to) ==
  /\ cPc[g] = "idle"
  /\ cPc' = [cPc EXCEPT ![g] = "from_server"]
  /\ cBk' = [cBk EXCEPT ![g] = [IdleBacklog EXCEPT !.from = from]]
  /\ cName' = [cName EXCEPT ![g] = to]
  /\ cSess' = [cSess EXCEPT ![g] = 0]
  /\ cErr' = [cErr EXCEPT ![g] = NoErr]
  /\ UNCHANGED <<cOthers, cAtCall, cM, cServers, cSessions, cReached,
                 cConstructed>>

\* The name a Backlog call is resolving: from (line 56), then to (line 61).
Resolving(g) ==
  IF cPc[g] \in {"from_server", "from_create"}
    THEN cBk[g].from ELSE cName[g]

\* c.server returned session r to a Backlog call: it is f, or it is t and
\* t.Vector is called next.
CBkResolved(g, r) ==
  IF cPc[g] \in {"from_server", "from_create"}
    THEN /\ cBk' = [cBk EXCEPT ![g].f = r]
         /\ cPc' = [cPc EXCEPT ![g] = "to_server"]
         /\ UNCHANGED cSess
    ELSE /\ cSess' = [cSess EXCEPT ![g] = r]
         /\ cPc' = [cPc EXCEPT ![g] = "to_vector"]
         /\ UNCHANGED cBk

\* server, lines 98-104, called by Backlog at lines 56 and 61.
CBkLookup(g) ==
  /\ cPc[g] \in {"from_server", "to_server"}
  /\ cM = Free
  /\ LET r == cServers[ToLower(Resolving(g))]
     IN IF r # 0
          THEN CBkResolved(g, r)
          ELSE /\ cPc' = [cPc EXCEPT ![g] = IF cPc[g] = "from_server"
                                              THEN "from_create"
                                              ELSE "to_create"]
               /\ UNCHANGED <<cSess, cBk>>
  /\ UNCHANGED <<cOthers, cAtCall, cM, cServers, cSessions, cName, cErr,
                 cReached, cConstructed>>

\* server, lines 105-112, called by Backlog; lines 57-59 and 62-64 return
\* the error of a failed construction.
CBkCreate(g) ==
  /\ cPc[g] \in {"from_create", "to_create"}
  /\ cM = Free
  /\ \E err \in {NoErr, ErrDisconnected} :
       LET fqdn == ToLower(Resolving(g))
           r == Created(cSessions, err)
       IN /\ cServers' = ServersAfterCreate(cServers, fqdn, r, err)
          /\ IF err = NoErr
               THEN /\ cSessions' = Append(cSessions,
                                       [server |-> fqdn, closed |-> FALSE])
                    /\ cConstructed' = [cConstructed EXCEPT ![fqdn] = @ + 1]
                    /\ CBkResolved(g, r)
                    /\ UNCHANGED cErr
               ELSE /\ cErr' = [cErr EXCEPT ![g] = err]
                    /\ cPc' = [cPc EXCEPT ![g] = "done"]
                    /\ UNCHANGED <<cSessions, cConstructed, cSess, cBk>>
  /\ UNCHANGED <<cOthers, cAtCall, cM, cName, cReached>>

\* Backlog, line 66: t.Vector(group) on the destination session, through
\* its limiter; a closed session answers ErrClosed and line 68 returns.
CBkVectorEnter(g) ==
  /\ cPc[g] = "to_vector"
  /\ cBk' = [cBk EXCEPT ![g].calls = Append(@, <<"Vector", cSess[g], 0>>)]
  /\ IF cSessions[cSess[g]].closed
       THEN /\ cErr' = [cErr EXCEPT ![g] = ErrClosed]
            /\ cPc' = [cPc EXCEPT ![g] = "done"]
       ELSE /\ Cardinality(InSession(cSess[g])) < LimiterCapacity
            /\ cPc' = [cPc EXCEPT ![g] = "to_remote"]
            /\ UNCHANGED cErr
  /\ UNCHANGED <<cOthers, cAtCall, cM, cServers, cSessions, cName, cSess,
                 cReached, cConstructed>>

\* t.Vector returns: a vector, whose release line 70 defers, or an error,
\* which lines 67-69 return.
CBkVectorReturn(g) ==
  /\ cPc[g] = "to_remote"
  /\ \E err \in {NoErr, ErrDisconnected} :
       IF err = NoErr
         THEN /\ cBk' = [cBk EXCEPT ![g].v = cSess[g], ![g].obtained = 1]
              /\ cPc' = [cPc EXCEPT ![g] = "from_backlog"]
              /\ UNCHANGED cErr
         ELSE /\ cErr' = [cErr EXCEPT ![g] = err]
              /\ cPc' = [cPc EXCEPT ![g] = "done"]
              /\ UNCHANGED cBk
  /\ UNCHANGED <<cOthers, cAtCall, cM, cServers, cSessions, cName, cSess,
                 cReached, cConstructed>>

\* Backlog, line 72: f.Backlog(v) on the source session, through its
\* limiter; a closed session answers ErrClosed.
CBkBacklogEnter(g) ==
  /\ cPc[g] = "from_backlog"
  /\ cBk' = [cBk EXCEPT ![g].calls =
                             Append(@, <<"Backlog", cBk[g].f, cBk[g].v>>)]
  /\ IF cSessions[cBk[g].f].closed
       THEN /\ cErr' = [cErr EXCEPT ![g] = ErrClosed]
            /\ cPc' = [cPc EXCEPT ![g] = "release"]
       ELSE /\ Cardinality(InSession(cBk[g].f)) < LimiterCapacity
            /\ cPc' = [cPc EXCEPT ![g] = "from_remote"]
            /\ UNCHANGED cErr
  /\ UNCHANGED <<cOthers, cAtCall, cM, cServers, cSessions, cName, cSess,
                 cReached, cConstructed>>

\* f.Backlog returns the backlog or an error.
CBkBacklogReturn(g) ==
  /\ cPc[g] = "from_remote"
  /\ \E err \in {NoErr, ErrDisconnected} :
       cErr' = [cErr EXCEPT ![g] = err]
  /\ cPc' = [cPc EXCEPT ![g] = "release"]
  /\ UNCHANGED <<cOthers, cAtCall, cBk, cM, cServers, cSessions, cName, cSess,
                 cReached, cConstructed>>

\* The call deferred by line 70 runs: v.Close().
CBkRelease(g) ==
  /\ cPc[g] = "release"
  /\ cBk' = [cBk EXCEPT ![g].released = DeferredRelease(@, cErr[g])]
  /\ cPc' = [cPc EXCEPT ![g] = "done"]
  /\ UNCHANGED <<cOthers, cAtCall, cM, cServers, cSessions, cName, cSess, cErr,
                 cReached, cConstructed>>

\* A goroutine calls Client.Close, line 42.
CClose(g) ==
  /\ cPc[g] = "idle"
  /\ cPc' = [cPc EXCEPT ![g] = "lock"]
  /\ UNCHANGED <<cOthers, cAtCall, cBk, cM, cServers, cSessions, cName, cSess,
                 cErr, cReached, cConstructed>>

\* c.m.Lock(): the statement of line 43, and the same call deferred by
\* line 44, which runs when the body of Close is over.  Lock is granted
\* while no goroutine holds the lock, the calling one included.
CCloseLock(g) ==
  /\ cPc[g] \in {"lock", "deferred"}
  /\ cM = Free
  /\ cM' = g
  /\ cPc' = [cPc EXCEPT ![g] = IF cPc[g] = "lock" THEN "body" ELSE "done"]
  /\ UNCHANGED <<cOthers, cAtCall, cBk, cServers, cSessions, cName, cSess,
                 cErr, cReached, cConstructed>>

\* Close, lines 45-48: Close every session of the map, then empty the map;
\* the deferred call runs next.
CCloseBody(g) ==
  /\ cPc[g] = "body"
  /\ cSessions' = [r \in DOMAIN cSessions |->
                     IF \E f \in Fqdns : cServers[f] = r
                       THEN [cSessions[r] EXCEPT !.closed = TRUE]
                       ELSE cSessions[r]]
  /\ cServers' = [f \in Fqdns |-> 0]
  /\ cPc' = [cPc EXCEPT ![g] = "deferred"]
  /\ UNCHANGED <<cOthers, cAtCall, cBk, cM, cName, cSess, cErr, cReached,
                 cConstructed>>

CNext ==
  \/ \E g \in VectorCallers, name \in Names : CVector(g, name)
  \/ \E g \in VectorCallers : CServerLookup(g)
  \/ \E g \in VectorCallers : CServerCreate(g)
  \/ \E g \in VectorCallers : CLimiterEnter(g)
  \/ \E g \in VectorCallers : CRemoteReturn(g)
  \/ \E g \in VectorCallers : CReturn(g)
  \/ \E g \in ClientClosers : CClose(g)
  \/ \E g \in ClientClosers : CCloseLock(g)
  \/ \E g \in ClientClosers : CCloseBody(g)

CInit ==
  /\ CNew
  /\ WNew
  /\ PNew
  /\ DRNew(0, 0)

SpecClient == CInit /\ [][CNext]_vars

\* Every goroutine inside the Client is scheduled fairly; nothing is assumed
\* about callers starting calls.
CFairness ==
  /\ \A g \in VectorCallers : /\ WF_vars(CServerLookup(g))
                              /\ WF_vars(CServerCreate(g))
                              /\ WF_vars(CLimiterEnter(g))
                              /\ WF_vars(CRemoteReturn(g))
                              /\ WF_vars(CReturn(g))
  /\ \A g \in ClientClosers : /\ WF_vars(CCloseLock(g))
                              /\ WF_vars(CCloseBody(g))

FairSpecClient == SpecClient /\ CFairness

\* The goroutines running beside a Backlog call: one Vector call and Close.
BesideBacklog == {<<"vector", 1>>}

\* Client.Backlog beside a Vector call and Client.Close.
BNext ==
  \/ \E g \in BacklogCallers, from, to \in Names : CBacklog(g, from, to)
  \/ \E g \in BacklogCallers : CBkLookup(g)
  \/ \E g \in BacklogCallers : CBkCreate(g)
  \/ \E g \in BacklogCallers : CBkVectorEnter(g)
  \/ \E g \in BacklogCallers : CBkVectorReturn(g)
  \/ \E g \in BacklogCallers : CBkBacklogEnter(g)
  \/ \E g \in BacklogCallers : CBkBacklogReturn(g)
  \/ \E g \in BacklogCallers : CBkRelease(g)
  \/ \E g \in BacklogCallers \cup BesideBacklog : CReturn(g)
  \/ \E g \in BesideBacklog, name \in Names : CVector(g, name)
  \/ \E g \in BesideBacklog : CServerLookup(g)
  \/ \E g \in BesideBacklog : CServerCreate(g)
  \/ \E g \in BesideBacklog : CLimiterEnter(g)
  \/ \E g \in BesideBacklog : CRemoteReturn(g)
  \/ \E g \in ClientClosers : CClose(g)
  \/ \E g \in ClientClosers : CCloseLock(g)
  \/ \E g \in ClientClosers : CCloseBody(g)

SpecBacklog == CInit /\ [][BNext]_vars

\* ------------------------------------------------ Client: claims C6-C8

\* C6: for every server identity the Client constructs at most one session.
C6_OneSessionPerServer ==
  \A f \in Fqdns : cConstructed[f] <= 1

\* The server a call is being made to.
RemoteServer(g) == cSessions[cSess[g]].server

\* C7: a Vector call that returns without error has reached the remote
\* session exactly once, and two Vector calls for the same server are never
\* inside the remote invocation at the same time.
C7_SameServerSerialized ==
  /\ \A g \in VectorCallers :
       (cPc[g] = "done" /\ cErr[g] = NoErr) => cReached[g] = 1
  /\ \A g, h \in VectorCallers :
       (g # h /\ cPc[g] = "remote" /\ cPc[h] = "remote")
         => RemoteServer(g) # RemoteServer(h)

\* C8: a Close call that has taken the lock returns, with the map empty and
\* the lock released.
C8_CloseReturns ==
  \A k \in ClientClosers :
    (cPc[k] = "body") ~>
      (cPc[k] = "done" /\ cM = Free /\ \A f \in Fqdns : cServers[f] = 0)

\* ---------------------------------------------- Client: claims C11-C13

\* C11: Client.Backlog calls Vector on the destination session and then
\* Backlog on the source session with the vector it got, in that order and
\* nothing else; when it returns, a vector it obtained has been released
\* exactly once, whether the backlog was computed or not, and no vector is
\* ever released when none was obtained or before Backlog on the source
\* session is over.
C11_VectorReleasedOnce ==
  \A g \in BacklogCallers :
    LET b == cBk[g]
        vectorCall == <<"Vector", cSess[g], 0>>
        backlogCall == <<"Backlog", b.f, cSess[g]>>
    IN /\ b.calls \in {<<>>, <<vectorCall>>, <<vectorCall, backlogCall>>}
       /\ b.released <= b.obtained
       /\ b.released = 1 =>
            (cPc[g] \in {"done", "idle"} /\ Len(b.calls) = 2)
       /\ b.obtained = 1 => (b.v = cSess[g] /\ Len(b.calls) >= 1)
       /\ cPc[g] \in {"done", "idle"} => b.released = b.obtained

\* A Backlog call has returned the error of the source session after it had
\* obtained a vector, which was released.
C11_Witness ==
  \E g \in BacklogCallers :
    /\ cPc[g] = "done"
    /\ cErr[g] # NoErr
    /\ cBk[g].obtained = 1
    /\ cBk[g].released = 1
    /\ Len(cBk[g].calls) = 2

\* C12: when constructing a session fails, the call returns that error and
\* the step changes neither the map nor the sessions; a later call for the
\* same identity that finds no session attempts the construction again.
C12_FailedCreateStoresNothing ==
  [][\A g \in VectorCallers :
       (cPc[g] = "create" /\ cPc'[g] = "done")
         => /\ cErr'[g] = ErrDisconnected
            /\ cServers' = cServers
            /\ cSessions' = cSessions]_vars

\* A caller whose previous call failed to construct the session of a server
\* has called again for that server, has constructed its session and holds
\* it.
C12_Witness ==
  \E g \in VectorCallers :
    /\ cAtCall[g].retry
    /\ cAtCall[g].seen = 0
    /\ cPc[g] = "vector"
    /\ cConstructed[ToLower(cName[g])] = 1
    /\ cServers[ToLower(cName[g])] = cSess[g]

\* C13: a resolution that begins when the map holds a session for the
\* lower-case name returns that session and constructs nothing.
C13_SameSessionAnyCase ==
  \A g \in VectorCallers :
    cAtCall[g].seen # 0 =>
      /\ cPc[g] # "create"
      /\ cPc[g] \in {"vector", "remote"} => cSess[g] = cAtCall[g].seen

\* ------------------------------------------------- Poller: claim C21

\* C21: the context of an update goroutine that is alive, in particular of
\* one whose source.Poll is in flight, is not cancelled, whatever Close, the
\* stopping run and the other update goroutines have cancelled: it is
\* cancelled only when the goroutine returns.
C21_InFlightNotCancelled ==
  \A u \in Updaters : pUpd[u] # "none" => CtxOf(u) \notin pCancelled

\* An invocation of source.Poll is in flight after Close has marked the
\* poller closed, run has stopped and cancelled its last context, and a
\* trigger has been dropped and its context cancelled.
C21_Witness ==
  \E u, w \in Updaters :
    /\ pUpd[u] = "poll"
    /\ pSpawnedBusy[w]
    /\ CtxOf(w) \in pCancelled
    /\ pClosed
    /\ pRun = "stopped"
    /\ RunCtx \in pCancelled

\* ---------------------------------------------- vectorWorkPool: actions

\* Mutant of PoolWorkers: the loop of line 26 runs once too often.
PoolWorkersExtra(numWorkers) == numWorkers + 1

\* part_000:25-28  one vectorWorker per i < numWorkers
PoolWorkers(numWorkers) == numWorkers

\* part_000:71-73  the result TunnyJob returns for what r.Vector returned
JobResult(vector, call, err) == [Vector |-> vector, Call |-> call, Err |-> err]

\* newVectorWorkPool, lines 21-34: no pool and ErrZeroWorkers for zero
\* workers, else a pool of numWorkers workers on the reporter r.
WNewVectorWorkPool(numWorkers) ==
  /\ wPool = "unbuilt"
  /\ wRequested' = numWorkers
  /\ IF numWorkers = 0
       THEN /\ wPool' = "nil"
            /\ wErr' = ErrZeroWorkers
            /\ UNCHANGED wWorker
       ELSE /\ wPool' = "open"
            /\ wErr' = NoErr
            /\ wWorker' = [w \in 1..PoolWorkers(numWorkers) |-> IdleWorker]
  /\ UNCHANGED <<wOthers, wSub, wProduced>>

\* Vector, line 37: a goroutine calls SendWork with its job and blocks.
WSendWork(g, group) ==
  /\ wPool = "open"
  /\ wSub[g].pc = "idle"
  /\ wSub' = [wSub EXCEPT ![g] = [pc |-> "sent", group |-> group,
                                  result |-> NoResult]]
  /\ wProduced' = [wProduced EXCEPT ![g] = NoResult]
  /\ UNCHANGED <<wOthers, wRequested, wPool, wErr, wWorker>>

\* SendWork hands the job to a worker that has none; the worker enters
\* TunnyJob, lines 68-72, and calls r.Vector(job.ctx, job.group).
WTunnyJob(g, w) ==
  /\ wSub[g].pc = "sent"
  /\ wWorker[w].state = "idle"
  /\ wWorker' = [wWorker EXCEPT ![w] = [state |-> "busy", job |-> g,
                                        group |-> wSub[g].group,
                                        result |-> NoResult]]
  /\ wSub' = [wSub EXCEPT ![g].pc = "running"]
  /\ UNCHANGED <<wOthers, wRequested, wPool, wErr, wProduced>>

\* TunnyJob, lines 72-73: r.Vector returns a vector and a call record, or
\* an error, and TunnyJob returns them in a vectorWorkResult.
WJobReturns(w) ==
  /\ wWorker[w].state = "busy"
  /\ \E err \in {NoErr, ErrDisconnected} :
       LET vector == IF err = NoErr THEN <<"vector", wWorker[w].group>>
                                    ELSE <<>>
           call == <<"call", wWorker[w].job[2]>>
       IN /\ wWorker' = [wWorker EXCEPT
                           ![w].state = "done",
                           ![w].result = JobResult(vector, call, err)]
          /\ wProduced' = [wProduced EXCEPT ![wWorker[w].job] =
                             [Vector |-> vector, Call |-> call, Err |-> err]]
  /\ UNCHANGED <<wOthers, wRequested, wPool, wErr, wSub>>

\* SendWork returns the result of the job to the goroutine that sent it and
\* the worker is free again; Vector, lines 42-47, returns its three fields.
WVectorReturns(g, w) ==
  /\ wSub[g].pc = "running"
  /\ wWorker[w].state = "done"
  /\ wWorker[w].job = g
  /\ wSub' = [wSub EXCEPT ![g].pc = "returned",
                          ![g].result = wWorker[w].result]
  /\ wWorker' = [wWorker EXCEPT ![w] = IdleWorker]
  /\ UNCHANGED <<wOthers, wRequested, wPool, wErr, wProduced>>

\* The caller of Vector goes on.
WCallerContinues(g) ==
  /\ wSub[g].pc = "returned"
  /\ wSub' = [wSub EXCEPT ![g].pc = "idle"]
  /\ UNCHANGED <<wOthers, wRequested, wPool, wErr, wWorker, wProduced>>

WNext ==
  \/ \E n \in 0..MaxWorkers : WNewVectorWorkPool(n)
  \/ \E g \in Submitters, group \in Groups : WSendWork(g, group)
  \/ \E g \in Submitters, w \in DOMAIN wWorker : WTunnyJob(g, w)
  \/ \E w \in DOMAIN wWorker : WJobReturns(w)
  \/ \E g \in Submitters, w \in DOMAIN wWorker : WVectorReturns(g, w)
  \/ \E g \in Submitters : WCallerContinues(g)

WInit ==
  /\ WNew
  /\ DRNew(0, 0)
  /\ PNew
  /\ CNew

SpecPool == WInit /\ [][WNext]_vars

\* ------------------------------------------- vectorWorkPool: claim C23

\* The workers inside r.Vector.
Executing == {w \in DOMAIN wWorker : wWorker[w].state = "busy"}

====
